---------------------------- MODULE Spec2Model ----------------------------
(***************************************************************************)
(* TUSX stock portfolio manager (src/main.py).                             *)
(*                                                                         *)
(* Numbers.  Python floats (purchase price, threshold, quotes, totals) are *)
(* modelled in fixed point, as an integer count of tenths: 100.0 is 1000,  *)
(* a threshold of -10 % is -100.  Python ints (id, shares) are plain       *)
(* integers.  A value formatted with '.2f' is a count of hundredths.       *)
(***************************************************************************)
EXTENDS Integers, Sequences, FiniteSets, TLC

VARIABLES
    redis,      \* value of the Redis key 'portfolio': None or a JSON text
    mainPc,     \* where the foreground thread (main) is
    cmd,        \* main's locals for the menu choice handled last (raw input)
    portfolio,  \* the list stored when that choice was made (what the
                \* load_portfolio of its handler returns)
    futures,    \* the futures of the handler's ThreadPoolExecutor, in
                \* submission order: [state, quote, exc, row]
    consumed,   \* the futures as_completed has yielded so far
    table,      \* the handler's table: the rows appended so far
    totals,     \* the accumulators of portfolio_summary
    shown,      \* what the last list_stocks / portfolio_summary printed
    monPc,      \* where the monitor thread (monitor_portfolio) is
    monPortfolio, \* the list the monitor loaded in this cycle
    monIdx,     \* the index of the stock its for loop is at
    monQuotes,  \* what get_current_stock_price returned for the stocks
                \* the loop has dealt with in this cycle
    alerts,     \* the alerts printed in this cycle, in order
    lastAlerts  \* the alerts printed in the cycle before this one

storeVars == <<redis, cmd, portfolio>>
poolVars  == <<futures, consumed, table, totals, shown>>
monVars   == <<monPc, monPortfolio, monIdx, monQuotes, alerts, lastAlerts>>
vars == <<redis, mainPc, cmd, portfolio, futures, consumed, table, totals, shown,
          monPc, monPortfolio, monIdx, monQuotes, alerts, lastAlerts>>

---------------------------------------------------------------------------
(* Bounds of the model *)

MaxPositions == 2

(* r.get('portfolio') of an absent key: None.  No JSON text is empty, so    *)
(* the empty token sequence stands for it.                                 *)
None == <<>>

Symbols == {"RY", "TD"}

---------------------------------------------------------------------------
(* json.dumps / json.loads of the portfolio list.  A JSON text is modelled *)
(* as its sequence of lexical tokens; a token is [t, s, n]: the token      *)
(* type, its string (keys and strings) and its number (int and float).     *)

Tok(t, s, n) == [t |-> t, s |-> s, n |-> n]

(* the tokens of one value of a position dict: str, int or float by the    *)
(* Python type the field holds                                             *)
json_dumps_value(key, v) ==
    CASE key = "symbol"                     -> Tok("str", v, 0)
      [] key \in {"id", "shares"}           -> Tok("int", "", v)
      [] OTHER                              -> Tok("float", "", v)

(* the tokens of one position dict, keys in insertion order *)
json_dumps_dict(stock) ==
    <<Tok("{", "", 0)>>
    \o <<Tok("key", "id", 0), json_dumps_value("id", stock.id)>>
    \o <<Tok("key", "symbol", 0), json_dumps_value("symbol", stock.symbol)>>
    \o <<Tok("key", "shares", 0), json_dumps_value("shares", stock.shares)>>
    \o <<Tok("key", "purchase_price", 0),
         json_dumps_value("purchase_price", stock.purchase_price)>>
    \o <<Tok("key", "threshold", 0),
         json_dumps_value("threshold", stock.threshold)>>
    \o <<Tok("}", "", 0)>>

RECURSIVE json_dumps_items(_)
json_dumps_items(list) ==
    IF list = <<>> THEN <<>>
    ELSE json_dumps_dict(Head(list)) \o json_dumps_items(Tail(list))

json_dumps(list) ==
    <<Tok("[", "", 0)>> \o json_dumps_items(list) \o <<Tok("]", "", 0)>>

(* the Python value of a scalar token *)
json_loads_value(tok) == IF tok.t = "str" THEN tok.s ELSE tok.n

(* parse the key/value pairs of a dict from position i (after its "{") up  *)
(* to its "}": <<the dict, the position after the "}">>                    *)
RECURSIVE json_loads_dict(_, _, _)
json_loads_dict(toks, i, obj) ==
    IF toks[i].t = "}" THEN <<obj, i + 1>>
    ELSE json_loads_dict(toks, i + 2,
                         (toks[i].s :> json_loads_value(toks[i + 1])) @@ obj)

(* json_loads_items with a slip: each parsed dict is put in front of the    *)
(* list instead of at its end                                              *)
RECURSIVE json_loads_items_reversed(_, _, _)
json_loads_items_reversed(toks, i, acc) ==
    IF toks[i].t = "]" THEN acc
    ELSE LET d == json_loads_dict(toks, i + 1, <<>>)
         IN  json_loads_items_reversed(toks, d[2], <<d[1]>> \o acc)

(* parse the dicts of the list from position i up to the closing "]" *)
RECURSIVE json_loads_items(_, _, _)
json_loads_items(toks, i, acc) ==
    IF toks[i].t = "]" THEN acc
    ELSE LET d == json_loads_dict(toks, i + 1, <<>>)
         IN  json_loads_items(toks, d[2], Append(acc, d[1]))

json_loads(toks) == json_loads_items(toks, 2, <<>>)

(* load_portfolio: r.get('portfolio'), [] when the key is absent *)
load_portfolio(data) == IF data = None THEN <<>> ELSE json_loads(data)

(* save_portfolio: the value r.set stores under 'portfolio' *)
save_portfolio(list) == json_dumps(list)

---------------------------------------------------------------------------
(* What the user types at a prompt: [k, v].  k = "int": an integer literal *)
(* such as "10" or "-5", v its value; k = "dec": a decimal literal such as *)
(* "2.5", v its value in tenths; k = "text": anything else;                *)
(* k = "none": the prompt was not reached.                                 *)

Raw(k, v) == [k |-> k, v |-> v]
NotAsked == Raw("none", 0)

(* int(input(...)): ValueError unless an integer literal *)
int_ok(raw) == raw.k = "int"
int_of(raw) == raw.v

(* float(input(...)): ValueError unless a numeric literal *)
float_ok(raw) == raw.k \in {"int", "dec"}
float_of(raw) == IF raw.k = "int" THEN raw.v * 10 ELSE raw.v

RawShares     == {Raw("dec", 25), Raw("int", 10)}
RawPrices     == {Raw("text", 0), Raw("int", 0), Raw("int", 100)}
RawThresholds == {Raw("text", 0), Raw("int", -10)}
RawIds        == {Raw("text", 0)} \cup {Raw("int", i) : i \in 1..(MaxPositions + 1)}

---------------------------------------------------------------------------
(* The store operations: each reads the whole list, changes it in memory   *)
(* and writes the whole list back.  Each operator gives the value the      *)
(* operation leaves under the key, from the value it found there.          *)

RECURSIVE MaxId(_)
MaxId(list) ==
    IF list = <<>> THEN 0
    ELSE LET m == MaxId(Tail(list))
         IN  IF Head(list).id > m THEN Head(list).id ELSE m

new_stock(id, symbol, shares, purchase_price, threshold) ==
    [id |-> id, symbol |-> symbol, shares |-> shares,
     purchase_price |-> purchase_price, threshold |-> threshold]

(* add_stock with a slip: the new id is the largest id, not one more *)
add_stock_same_id(data, symbol, shares, purchase_price, threshold) ==
    LET list   == load_portfolio(data)
        new_id == MaxId(list)
    IN  save_portfolio(
            Append(list, new_stock(new_id, symbol, shares, purchase_price, threshold)))

add_stock(data, symbol, shares, purchase_price, threshold) ==
    LET list   == load_portfolio(data)
        new_id == MaxId(list) + 1
    IN  save_portfolio(
            Append(list, new_stock(new_id, symbol, shares, purchase_price, threshold)))

(* the index of the first stock of the list with that id, 0 when none *)
RECURSIVE first_with_id(_, _, _)
first_with_id(list, stock_id, i) ==
    IF i > Len(list) THEN 0
    ELSE IF list[i].id = stock_id THEN i
    ELSE first_with_id(list, stock_id, i + 1)

(* update_stock with a slip: the first position is changed, whatever its id *)
update_stock_first(data, stock_id, symbol, shares, purchase_price, threshold) ==
    LET list == load_portfolio(data)
    IN  save_portfolio(
            [i \in 1..Len(list) |->
                IF i = 1
                THEN new_stock(list[i].id, symbol, shares, purchase_price, threshold)
                ELSE list[i]])

update_stock(data, stock_id, symbol, shares, purchase_price, threshold) ==
    LET list == load_portfolio(data)
        k    == first_with_id(list, stock_id, 1)
    IN  save_portfolio(
            [i \in 1..Len(list) |->
                IF i = k
                THEN new_stock(list[i].id, symbol, shares, purchase_price, threshold)
                ELSE list[i]])

RECURSIVE without_id(_, _)
without_id(list, stock_id) ==
    IF list = <<>> THEN <<>>
    ELSE IF Head(list).id # stock_id
         THEN <<Head(list)>> \o without_id(Tail(list), stock_id)
         ELSE without_id(Tail(list), stock_id)

(* renumber with a slip: the ids are left as they were *)
renumber_skipped(list) == list

renumber(list) ==
    [i \in 1..Len(list) |-> [list[i] EXCEPT !.id = i]]

delete_stock(data, stock_id) ==
    save_portfolio(renumber(without_id(load_portfolio(data), stock_id)))

---------------------------------------------------------------------------
(* main: the menu loop.  One action per menu choice; the prompts of a      *)
(* choice are answered in order, and a ValueError of int()/float() ends    *)
(* the choice before the later prompts are reached.                        *)

Command(choice, stock_id, symbol, valid, shares, purchase_price, threshold) ==
    [choice |-> choice, stock_id |-> stock_id, symbol |-> symbol, valid |-> valid,
     shares |-> shares, purchase_price |-> purchase_price, threshold |-> threshold]

NoCommand == Command("", NotAsked, "", FALSE, NotAsked, NotAsked, NotAsked)

(* the answers to the three numeric prompts that main can get: a prompt is *)
(* reached only when the answers before it parsed                          *)
NumericAnswers ==
    {<<sh, pr, th>> \in RawShares \X (RawPrices \cup {NotAsked})
                                  \X (RawThresholds \cup {NotAsked}) :
        /\ (pr = NotAsked) <=> ~int_ok(sh)
        /\ (th = NotAsked) <=> (pr = NotAsked \/ ~float_ok(pr))}

all_parsed(c) ==
    int_ok(c.shares) /\ float_ok(c.purchase_price) /\ float_ok(c.threshold)

(* choice '2': validate_symbol, then shares, price and threshold, then     *)
(* add_stock; a ValueError or a failed validation only prints              *)
MenuAddFrom(symbols, valids, answers) ==
    /\ mainPc = "menu"
    /\ Len(load_portfolio(redis)) < MaxPositions
    /\ \E symbol \in symbols, valid \in valids, ans \in answers :
          LET c == IF valid
                   THEN Command("a", NotAsked, symbol, TRUE, ans[1], ans[2], ans[3])
                   ELSE Command("a", NotAsked, symbol, FALSE, NotAsked, NotAsked, NotAsked)
          IN  /\ valid \/ ans = <<Raw("dec", 25), NotAsked, NotAsked>>
              /\ cmd' = c
              /\ portfolio' = load_portfolio(redis)
              /\ redis' = IF valid /\ all_parsed(c)
                          THEN add_stock(redis, symbol, int_of(c.shares),
                                         float_of(c.purchase_price),
                                         float_of(c.threshold))
                          ELSE redis
    /\ UNCHANGED <<mainPc, poolVars, monVars>>

MenuAdd == MenuAddFrom(Symbols, BOOLEAN, NumericAnswers)

(* choice '3': the id, the symbol and its validation, then the numbers,    *)
(* then update_stock                                                       *)
MenuUpdateFrom(ids, symbols, valids, answers) ==
    /\ mainPc = "menu"
    /\ \E id \in ids, symbol \in symbols, valid \in valids, ans \in answers :
          LET asked == int_ok(id) /\ valid
              c == IF asked
                   THEN Command("u", id, symbol, TRUE, ans[1], ans[2], ans[3])
                   ELSE Command("u", id, IF int_ok(id) THEN symbol ELSE "",
                                FALSE, NotAsked, NotAsked, NotAsked)
          IN  /\ asked \/ ans = <<Raw("dec", 25), NotAsked, NotAsked>>
              /\ int_ok(id) \/ (symbol = "RY" /\ ~valid)
              /\ cmd' = c
              /\ portfolio' = load_portfolio(redis)
              /\ redis' = IF asked /\ all_parsed(c)
                          THEN update_stock(redis, int_of(id), symbol, int_of(c.shares),
                                            float_of(c.purchase_price),
                                            float_of(c.threshold))
                          ELSE redis
    /\ UNCHANGED <<mainPc, poolVars, monVars>>

MenuUpdate == MenuUpdateFrom(RawIds, Symbols, BOOLEAN, NumericAnswers)

(* choice '4': the id, then delete_stock *)
MenuDeleteFrom(ids) ==
    /\ mainPc = "menu"
    /\ \E id \in ids :
          /\ cmd' = Command("d", id, "", FALSE, NotAsked, NotAsked, NotAsked)
          /\ portfolio' = load_portfolio(redis)
          /\ redis' = IF int_ok(id) THEN delete_stock(redis, int_of(id)) ELSE redis
    /\ UNCHANGED <<mainPc, poolVars, monVars>>

MenuDelete == MenuDeleteFrom(RawIds)

(* choice '9': leave the loop *)
MenuExit ==
    /\ mainPc = "menu"
    /\ mainPc' = "exit"
    /\ cmd' = Command("e", NotAsked, "", FALSE, NotAsked, NotAsked, NotAsked)
    /\ UNCHANGED <<redis, portfolio, poolVars, monVars>>

---------------------------------------------------------------------------
(* The Quote Provider.  get_current_stock_price returns the close price    *)
(* (a numpy.float64) or, on any exception, None: [ok, price].              *)

Quote(ok, price) == [ok |-> ok, price |-> price]
QuoteFailed == Quote(FALSE, 0)

(* Python truthiness of the returned value: None and 0.0 are falsy *)
truthy(q) == q.ok /\ q.price # 0

(* the integer nearest to n / d (d # 0), ties to even: the rounding of     *)
(* '.2f' formatting, for a quotient counted in hundredths                  *)
round_div(n, d) ==
    LET nn == IF d < 0 THEN -n ELSE n
        dd == IF d < 0 THEN -d ELSE d
        q  == nn \div dd
        r  == nn % dd
    IN  IF 2 * r < dd THEN q
        ELSE IF 2 * r > dd THEN q + 1
        ELSE IF q % 2 = 0 THEN q ELSE q + 1

(* a percentage: a number of hundredths of a percent, or an infinity *)
Pct(k, v) == [k |-> k, v |-> v]

(* ((current_price - purchase_price) / purchase_price) * 100.              *)
(* numpy is TRUE when current_price is the provider's numpy.float64: a     *)
(* numpy division by 0.0 gives +-inf (nan for 0/0) with a warning, a       *)
(* Python float division by 0.0 raises ZeroDivisionError ("raise").        *)
percent_change(current_price, purchase_price, numpy) ==
    IF purchase_price # 0
    THEN Pct("num", round_div((current_price - purchase_price) * 10000, purchase_price))
    ELSE IF ~numpy THEN Pct("raise", 0)
    ELSE IF current_price > 0 THEN Pct("inf", 0)
    ELSE IF current_price < 0 THEN Pct("-inf", 0)
    ELSE Pct("nan", 0)

Row(stock, current_price, change) ==
    [id |-> stock.id, symbol |-> stock.symbol, shares |-> stock.shares,
     purchase_price |-> stock.purchase_price, current_price |-> current_price,
     change |-> change,
     color |-> IF change.k = "inf" \/ (change.k = "num" /\ change.v >= 0)
               THEN "green" ELSE "red",
     threshold |-> stock.threshold]

NoRow == Row(new_stock(0, "", 0, 0, 0), 0, Pct("num", 0))

(* fetch_stock_details with a slip: the fallback price is 0, not the       *)
(* purchase price                                                          *)
fetch_stock_details_zero_fallback(stock, q) ==
    LET current_price == IF truthy(q) THEN q.price ELSE 0
        change == percent_change(current_price, stock.purchase_price, truthy(q))
    IN  IF change.k = "raise"
        THEN [exc |-> "ZeroDivisionError", row |-> NoRow]
        ELSE [exc |-> "", row |-> Row(stock, current_price, change)]

(* fetch_stock_details(stock) when get_current_stock_price returns q: the   *)
(* row it returns, or the exception it raises                              *)
fetch_stock_details(stock, q) ==
    LET current_price == IF truthy(q) THEN q.price ELSE stock.purchase_price
        change == percent_change(current_price, stock.purchase_price, truthy(q))
    IN  IF change.k = "raise"
        THEN [exc |-> "ZeroDivisionError", row |-> NoRow]
        ELSE [exc |-> "", row |-> Row(stock, current_price, change)]

---------------------------------------------------------------------------
(* The worker pool of list_stocks and portfolio_summary:                   *)
(* ThreadPoolExecutor(max_workers=5), one submit per stock, as_completed.  *)

MAX_WORKERS == 5

Future(state, q, res) == [state |-> state, quote |-> q, exc |-> res.exc, row |-> res.row]
Pending == Future("pending", QuoteFailed, [exc |-> "", row |-> NoRow])

QuoteOutcomes == {QuoteFailed, Quote(TRUE, 0), Quote(TRUE, 1100), Quote(TRUE, 1800)}

(* stock_info.get('dividendYield', 0) * 100: the yield, a fraction counted *)
(* in hundredths (2 is 0.02), or the expression raises                     *)
Dividend(na, v) == [na |-> na, v |-> v]
DividendOutcomes == {Dividend(TRUE, 0), Dividend(FALSE, 2)}

Perf(set, symbol, profit_loss) == [set |-> set, symbol |-> symbol, profit_loss |-> profit_loss]

Totals(tv, tpv, td, ts, hi, lo) ==
    [total_value |-> tv, total_purchase_value |-> tpv, total_dividends |-> td,
     total_shares |-> ts, highest_perf_stock |-> hi, lowest_perf_stock |-> lo]

NoTotals == Totals(0, 0, 0, 0, Perf(FALSE, "", 0), Perf(FALSE, "", 0))

Shown(kind, rows, summary) == [kind |-> kind, table |-> rows, summary |-> summary]

NoSummary ==
    [total_value |-> 0, total_purchase_value |-> 0, total_profit_loss |-> 0,
     percentage_profit_loss |-> 0, avg_purchase_price |-> 0, avg_current_price |-> 0,
     highest_perf_stock |-> Perf(FALSE, "", 0), lowest_perf_stock |-> Perf(FALSE, "", 0)]

NothingShown == Shown("", <<>>, NoSummary)

InPool == mainPc \in {"list", "summary", "list_raising", "summary_raising"}

Running == {i \in 1..Len(futures) : futures[i].state = "running"}
PendingFutures == {i \in 1..Len(futures) : futures[i].state = "pending"}
Finished == {i \in 1..Len(futures) : futures[i].state = "finished"}

(* table.sort(key=lambda x: x[0]): a stable sort by id *)
RECURSIVE insert_by_id(_, _)
insert_by_id(sorted, row) ==
    IF sorted = <<>> THEN <<row>>
    ELSE IF row.id < Head(sorted).id THEN <<row>> \o sorted
    ELSE <<Head(sorted)>> \o insert_by_id(Tail(sorted), row)

RECURSIVE sort_by_id(_)
sort_by_id(rows) ==
    IF rows = <<>> THEN <<>>
    ELSE insert_by_id(sort_by_id(SubSeq(rows, 1, Len(rows) - 1)), rows[Len(rows)])

(* choices '1' and '6': load the list; an empty one only prints a message, *)
(* otherwise one future per stock is submitted to a new pool               *)
StartPool(choice, pc) ==
    /\ mainPc = "menu"
    /\ cmd' = Command(choice, NotAsked, "", FALSE, NotAsked, NotAsked, NotAsked)
    /\ portfolio' = load_portfolio(redis)
    /\ consumed' = {}
    /\ table' = <<>>
    /\ totals' = NoTotals
    /\ IF load_portfolio(redis) = <<>>
       THEN /\ shown' = Shown("No stocks in portfolio.", <<>>, NoSummary)
            /\ futures' = <<>>
            /\ UNCHANGED mainPc
       ELSE /\ shown' = NothingShown
            /\ futures' = [i \in 1..Len(load_portfolio(redis)) |-> Pending]
            /\ mainPc' = pc
    /\ UNCHANGED <<redis, monVars>>

MenuList == StartPool("l", "list")

MenuSummary == StartPool("s", "summary")

(* a worker with a slip: a thread per work item, whatever max_workers is *)
WorkerStart_unbounded ==
    /\ InPool
    /\ PendingFutures # {}
    /\ LET i == CHOOSE k \in PendingFutures : \A m \in PendingFutures : k <= m
       IN  futures' = [futures EXCEPT ![i].state = "running"]
    /\ UNCHANGED <<storeVars, monVars, mainPc, consumed, table, totals, shown>>

(* a worker thread takes the oldest queued work item; the pool never has   *)
(* more than max_workers threads                                           *)
WorkerStart ==
    /\ InPool
    /\ PendingFutures # {}
    /\ Cardinality(Running) < MAX_WORKERS
    /\ LET i == CHOOSE k \in PendingFutures : \A m \in PendingFutures : k <= m
       IN  futures' = [futures EXCEPT ![i].state = "running"]
    /\ UNCHANGED <<storeVars, monVars, mainPc, consumed, table, totals, shown>>

(* the provider call of a running item returns or fails, and the item      *)
(* finishes with the row or the exception of fetch_stock_details           *)
WorkerFinishWith(quotes) ==
    /\ InPool
    /\ \E i \in Running, q \in quotes :
          futures' = [futures EXCEPT
                         ![i] = Future("finished", q, fetch_stock_details(portfolio[i], q))]
    /\ UNCHANGED <<storeVars, monVars, mainPc, consumed, table, totals, shown>>

WorkerFinish == WorkerFinishWith(QuoteOutcomes)

(* list_stocks: as_completed yields a finished future; its result is       *)
(* appended to the table, or its exception leaves the with block           *)
ListConsume ==
    /\ mainPc = "list"
    /\ \E i \in Finished \ consumed :
          /\ consumed' = consumed \cup {i}
          /\ IF futures[i].exc # ""
             THEN /\ mainPc' = "list_raising"
                  /\ UNCHANGED table
             ELSE /\ table' = Append(table, futures[i].row)
                  /\ UNCHANGED mainPc
    /\ UNCHANGED <<storeVars, monVars, futures, totals, shown>>

(* accumulate with a slip: the purchase value is taken at the current     *)
(* price                                                                   *)
accumulate_at_current_price(t, row) ==
    LET value          == row.shares * row.current_price
        purchase_value == row.shares * row.current_price
        profit_loss    == value - purchase_value
    IN  Totals(t.total_value + value,
               t.total_purchase_value + purchase_value,
               t.total_dividends,
               t.total_shares + row.shares,
               IF ~t.highest_perf_stock.set \/ profit_loss > t.highest_perf_stock.profit_loss
               THEN Perf(TRUE, row.symbol, profit_loss) ELSE t.highest_perf_stock,
               IF ~t.lowest_perf_stock.set \/ profit_loss < t.lowest_perf_stock.profit_loss
               THEN Perf(TRUE, row.symbol, profit_loss) ELSE t.lowest_perf_stock)

(* accumulate with a slip: on a tie the later row replaces the earlier one *)
accumulate_last_wins(t, row) ==
    LET value          == row.shares * row.current_price
        purchase_value == row.shares * row.purchase_price
        profit_loss    == value - purchase_value
    IN  Totals(t.total_value + value,
               t.total_purchase_value + purchase_value,
               t.total_dividends,
               t.total_shares + row.shares,
               IF ~t.highest_perf_stock.set \/ profit_loss >= t.highest_perf_stock.profit_loss
               THEN Perf(TRUE, row.symbol, profit_loss) ELSE t.highest_perf_stock,
               IF ~t.lowest_perf_stock.set \/ profit_loss <= t.lowest_perf_stock.profit_loss
               THEN Perf(TRUE, row.symbol, profit_loss) ELSE t.lowest_perf_stock)

(* the accumulators of portfolio_summary after one more row *)
accumulate(t, row) ==
    LET value          == row.shares * row.current_price
        purchase_value == row.shares * row.purchase_price
        profit_loss    == value - purchase_value
    IN  Totals(t.total_value + value,
               t.total_purchase_value + purchase_value,
               t.total_dividends,
               t.total_shares + row.shares,
               IF ~t.highest_perf_stock.set \/ profit_loss > t.highest_perf_stock.profit_loss
               THEN Perf(TRUE, row.symbol, profit_loss) ELSE t.highest_perf_stock,
               IF ~t.lowest_perf_stock.set \/ profit_loss < t.lowest_perf_stock.profit_loss
               THEN Perf(TRUE, row.symbol, profit_loss) ELSE t.lowest_perf_stock)

(* portfolio_summary: as_completed yields a finished future; its row is    *)
(* appended and accumulated, the dividend yield is fetched and appended to *)
(* the row; an exception of the future leaves the with block               *)
SummaryConsumeWith(dividends) ==
    /\ mainPc = "summary"
    /\ \E i \in Finished \ consumed, d \in dividends :
          /\ consumed' = consumed \cup {i}
          /\ IF futures[i].exc # ""
             THEN /\ mainPc' = "summary_raising"
                  /\ UNCHANGED <<table, totals>>
             ELSE LET dividend_yield == IF d.na THEN d ELSE Dividend(FALSE, d.v * 10)
                      t == accumulate(totals, futures[i].row)
                  IN  /\ table' = Append(table, [row |-> futures[i].row,
                                                 dividend_yield |-> dividend_yield])
                      /\ totals' = IF d.na THEN t
                                   ELSE [t EXCEPT !.total_dividends =
                                            @ + dividend_yield.v * futures[i].row.shares]
                      /\ UNCHANGED mainPc
    /\ UNCHANGED <<storeVars, monVars, futures, shown>>

SummaryConsume == SummaryConsumeWith(DividendOutcomes)

(* list_stocks after the loop: the with block ends, the table is sorted by *)
(* id and printed                                                          *)
ListReturn ==
    /\ mainPc = "list"
    /\ consumed = 1..Len(futures)
    /\ shown' = Shown("table", sort_by_id(table), NoSummary)
    /\ mainPc' = "menu"
    /\ UNCHANGED <<storeVars, monVars, futures, consumed, table, totals>>

(* the summary table of portfolio_summary, from its accumulators *)
summary_table(t) ==
    LET total_profit_loss == t.total_value - t.total_purchase_value
    IN  [total_value |-> t.total_value,
         total_purchase_value |-> t.total_purchase_value,
         total_profit_loss |-> total_profit_loss,
         percentage_profit_loss |->
             IF t.total_purchase_value > 0
             THEN round_div(total_profit_loss * 10000, t.total_purchase_value) ELSE 0,
         avg_purchase_price |->
             IF t.total_shares > 0
             THEN round_div(t.total_purchase_value * 10, t.total_shares) ELSE 0,
         avg_current_price |->
             IF t.total_shares > 0
             THEN round_div(t.total_value * 10, t.total_shares) ELSE 0,
         highest_perf_stock |-> t.highest_perf_stock,
         lowest_perf_stock |-> t.lowest_perf_stock]

(* portfolio_summary after the loop: the with block ends, the table is     *)
(* printed as it is and the summary table after it                         *)
SummaryReturn ==
    /\ mainPc = "summary"
    /\ consumed = 1..Len(futures)
    /\ shown' = Shown("summary", table, summary_table(totals))
    /\ mainPc' = "menu"
    /\ UNCHANGED <<storeVars, monVars, futures, consumed, table, totals>>

(* an exception of future.result() leaves the with block: the executor's   *)
(* __exit__ waits for every submitted item (shutdown(wait=True)), then the *)
(* exception reaches main, which does not catch it: the process ends       *)
PoolRaise ==
    /\ mainPc \in {"list_raising", "summary_raising"}
    /\ Finished = 1..Len(futures)
    /\ mainPc' = "crashed"
    /\ UNCHANGED <<storeVars, monVars, futures, consumed, table, totals, shown>>

---------------------------------------------------------------------------
(* monitor_portfolio: the daemon thread started before main.  It ends with *)
(* the process.                                                            *)

ProcessAlive == mainPc \notin {"crashed", "exit"}

MonitorQuotes == {QuoteFailed, Quote(TRUE, 850), Quote(TRUE, 900), Quote(TRUE, 950)}

(* change <= threshold with a slip: a strict comparison *)
change_le_threshold_strict(current_price, purchase_price, threshold) ==
    IF purchase_price > 0
    THEN (current_price - purchase_price) * 1000 < threshold * purchase_price
    ELSE IF purchase_price < 0
    THEN (current_price - purchase_price) * 1000 > threshold * purchase_price
    ELSE current_price < 0

(* change <= threshold, for change = ((current_price - purchase_price) /   *)
(* purchase_price) * 100 with a truthy current_price (a numpy.float64) and *)
(* a threshold in tenths: the quotient compared exactly; a division by 0.0 *)
(* gives +inf or -inf by the sign of the numerator                         *)
change_le_threshold(current_price, purchase_price, threshold) ==
    IF purchase_price > 0
    THEN (current_price - purchase_price) * 1000 <= threshold * purchase_price
    ELSE IF purchase_price < 0
    THEN (current_price - purchase_price) * 1000 >= threshold * purchase_price
    ELSE current_price < 0

Alert(stock, current_price) ==
    [id |-> stock.id, symbol |-> stock.symbol, current_price |-> current_price,
     threshold |-> stock.threshold]

(* the top of the while loop, with a slip: the list is loaded only once    *)
(* and kept for the later cycles                                           *)
MonitorLoad_cached ==
    /\ ProcessAlive
    /\ monPc = "load"
    /\ monPortfolio' = IF monPortfolio = <<>> THEN load_portfolio(redis) ELSE monPortfolio
    /\ monIdx' = 1
    /\ monQuotes' = <<>>
    /\ alerts' = <<>>
    /\ lastAlerts' = alerts
    /\ monPc' = "check"
    /\ UNCHANGED <<storeVars, mainPc, poolVars>>

(* the top of the while loop: load the list *)
MonitorLoad ==
    /\ ProcessAlive
    /\ monPc = "load"
    /\ monPortfolio' = load_portfolio(redis)
    /\ monIdx' = 1
    /\ monQuotes' = <<>>
    /\ alerts' = <<>>
    /\ lastAlerts' = alerts
    /\ monPc' = "check"
    /\ UNCHANGED <<storeVars, mainPc, poolVars>>

(* the iteration with a slip: a failed quote falls back to the purchase    *)
(* price, as fetch_stock_details does                                      *)
MonitorCheckWith_fallback(quotes) ==
    /\ ProcessAlive
    /\ monPc = "check"
    /\ monIdx <= Len(monPortfolio)
    /\ \E q \in quotes :
          LET stock == monPortfolio[monIdx]
              price == IF truthy(q) THEN q.price ELSE stock.purchase_price
          IN  /\ monQuotes' = Append(monQuotes, q)
              /\ alerts' = IF change_le_threshold(price, stock.purchase_price,
                                                  stock.threshold)
                           THEN Append(alerts, Alert(stock, price))
                           ELSE alerts
    /\ monIdx' = monIdx + 1
    /\ UNCHANGED <<storeVars, mainPc, poolVars, monPc, monPortfolio, lastAlerts>>

(* the iteration with a slip: a position alerted in the cycle before is    *)
(* not alerted again                                                       *)
MonitorCheckWith_once(quotes) ==
    /\ ProcessAlive
    /\ monPc = "check"
    /\ monIdx <= Len(monPortfolio)
    /\ \E q \in quotes :
          LET stock == monPortfolio[monIdx]
          IN  /\ monQuotes' = Append(monQuotes, q)
              /\ alerts' = IF /\ truthy(q)
                              /\ change_le_threshold(q.price, stock.purchase_price,
                                                     stock.threshold)
                              /\ \A k \in 1..Len(lastAlerts) : lastAlerts[k].id # stock.id
                           THEN Append(alerts, Alert(stock, q.price))
                           ELSE alerts
    /\ monIdx' = monIdx + 1
    /\ UNCHANGED <<storeVars, mainPc, poolVars, monPc, monPortfolio, lastAlerts>>

(* one iteration of the for loop: fetch the price of the stock; with a     *)
(* truthy price, print an alert when the change is at or below the         *)
(* threshold                                                               *)
MonitorCheckWith(quotes) ==
    /\ ProcessAlive
    /\ monPc = "check"
    /\ monIdx <= Len(monPortfolio)
    /\ \E q \in quotes :
          LET stock == monPortfolio[monIdx]
          IN  /\ monQuotes' = Append(monQuotes, q)
              /\ alerts' = IF truthy(q)
                              /\ change_le_threshold(q.price, stock.purchase_price,
                                                     stock.threshold)
                           THEN Append(alerts, Alert(stock, q.price))
                           ELSE alerts
    /\ monIdx' = monIdx + 1
    /\ UNCHANGED <<storeVars, mainPc, poolVars, monPc, monPortfolio, lastAlerts>>

MonitorCheck == MonitorCheckWith(MonitorQuotes)

(* the for loop is over: time.sleep(3600) *)
MonitorSleep ==
    /\ ProcessAlive
    /\ monPc = "check"
    /\ monIdx > Len(monPortfolio)
    /\ monPc' = "sleep"
    /\ UNCHANGED <<storeVars, mainPc, poolVars, monPortfolio, monIdx, monQuotes, alerts,
                   lastAlerts>>

(* the end of the sleep with a slip: the function returns *)
MonitorWake_return ==
    /\ ProcessAlive
    /\ monPc = "sleep"
    /\ monPc' = "done"
    /\ UNCHANGED <<storeVars, mainPc, poolVars, monPortfolio, monIdx, monQuotes, alerts,
                   lastAlerts>>

(* the sleep returns: back to the top of the loop *)
MonitorWake ==
    /\ ProcessAlive
    /\ monPc = "sleep"
    /\ monPc' = "load"
    /\ UNCHANGED <<storeVars, mainPc, poolVars, monPortfolio, monIdx, monQuotes, alerts,
                   lastAlerts>>

Init ==
    /\ redis = None
    /\ mainPc = "menu"
    /\ cmd = NoCommand
    /\ portfolio = <<>>
    /\ futures = <<>>
    /\ consumed = {}
    /\ table = <<>>
    /\ totals = NoTotals
    /\ shown = NothingShown
    /\ monPc = "load"
    /\ monPortfolio = <<>>
    /\ monIdx = 1
    /\ monQuotes = <<>>
    /\ alerts = <<>>
    /\ lastAlerts = <<>>

Next == MenuAdd \/ MenuUpdate \/ MenuDelete \/ MenuExit

Spec == Init /\ [][Next]_vars

(* The pool, from any list the store can hold when the program starts:     *)
(* the positions are drawn from PoolStocks and numbered 1..N               *)
PoolStocks ==
    { new_stock(0, "RY", 10, 1000, -100),
      new_stock(0, "TD", 5, 2000, -100),
      new_stock(0, "TD", 10, 0, -100) }

PoolLists ==
    UNION { {renumber(l) : l \in [1..n -> PoolStocks]} : n \in 0..MaxPositions }

InitPool ==
    /\ redis \in {None} \cup {save_portfolio(l) : l \in PoolLists}
    /\ mainPc = "menu"
    /\ cmd = NoCommand
    /\ portfolio = <<>>
    /\ futures = <<>>
    /\ consumed = {}
    /\ table = <<>>
    /\ totals = NoTotals
    /\ shown = NothingShown
    /\ monPc = "load"
    /\ monPortfolio = <<>>
    /\ monIdx = 1
    /\ monQuotes = <<>>
    /\ alerts = <<>>
    /\ lastAlerts = <<>>

NextPool ==
    \/ MenuList \/ MenuSummary
    \/ WorkerStart \/ WorkerFinish
    \/ ListConsume \/ SummaryConsume
    \/ ListReturn \/ SummaryReturn
    \/ PoolRaise

PoolSpec == InitPool /\ [][NextPool]_vars

(* every provider call returns or fails, and every thread keeps running *)
FairPoolSpec ==
    /\ PoolSpec
    /\ WF_vars(WorkerStart) /\ WF_vars(WorkerFinish)
    /\ WF_vars(ListConsume) /\ WF_vars(SummaryConsume)
    /\ WF_vars(ListReturn) /\ WF_vars(SummaryReturn)
    /\ WF_vars(PoolRaise)

(* The monitor, from any list the store can hold when the program starts:  *)
(* the positions are drawn from MonitorStocks and numbered 1..N            *)
MonitorStocks ==
    { new_stock(0, "RY", 10, 1000, -100),
      new_stock(0, "TD", 10, 1000, 0),
      new_stock(0, "TD", 10, 0, -100) }

MonitorLists ==
    UNION { {renumber(l) : l \in [1..n -> MonitorStocks]} : n \in 0..MaxPositions }

InitMonitor ==
    /\ redis \in {None} \cup {save_portfolio(l) : l \in MonitorLists}
    /\ mainPc = "menu"
    /\ cmd = NoCommand
    /\ portfolio = <<>>
    /\ futures = <<>>
    /\ consumed = {}
    /\ table = <<>>
    /\ totals = NoTotals
    /\ shown = NothingShown
    /\ monPc = "load"
    /\ monPortfolio = <<>>
    /\ monIdx = 1
    /\ monQuotes = <<>>
    /\ alerts = <<>>
    /\ lastAlerts = <<>>

NextMonitor == MonitorLoad \/ MonitorCheck \/ MonitorSleep \/ MonitorWake

MonitorSpec == InitMonitor /\ [][NextMonitor]_vars

(* The pool with more work items than workers: a list of up to MaxTasks    *)
(* positions of one stock; every quote is fetched, no dividend yield is    *)
(* available                                                               *)
MaxTasks == 6

WideLists ==
    { renumber([i \in 1..n |-> new_stock(0, "RY", 10, 1000, -100)]) : n \in 0..MaxTasks }

InitWidePool ==
    /\ redis \in {save_portfolio(l) : l \in WideLists}
    /\ mainPc = "menu"
    /\ cmd = NoCommand
    /\ portfolio = <<>>
    /\ futures = <<>>
    /\ consumed = {}
    /\ table = <<>>
    /\ totals = NoTotals
    /\ shown = NothingShown
    /\ monPc = "load"
    /\ monPortfolio = <<>>
    /\ monIdx = 1
    /\ monQuotes = <<>>
    /\ alerts = <<>>
    /\ lastAlerts = <<>>

WideFinish == WorkerFinishWith({Quote(TRUE, 1100)})

WideSummaryConsume == SummaryConsumeWith({Dividend(TRUE, 0)})

NextWidePool ==
    \/ MenuList \/ MenuSummary
    \/ WorkerStart \/ WideFinish
    \/ ListConsume \/ WideSummaryConsume
    \/ ListReturn \/ SummaryReturn

WidePoolSpec == InitWidePool /\ [][NextWidePool]_vars

(* The program as __main__ starts it: the monitor thread beside main, from  *)
(* an empty store.  main adds a position of RY, turns the first position   *)
(* into TD, deletes the first position or leaves; each quote of the        *)
(* monitor fails or is 85.0.                                               *)
ProgramAnswers == {<<Raw("int", 10), Raw("int", 100), Raw("int", -10)>>}

ProgramAdd == MenuAddFrom({"RY"}, {TRUE}, ProgramAnswers)

ProgramUpdate == MenuUpdateFrom({Raw("int", 1)}, {"TD"}, {TRUE}, ProgramAnswers)

ProgramDelete == MenuDeleteFrom({Raw("int", 1)})

ProgramCheck == MonitorCheckWith({QuoteFailed, Quote(TRUE, 850)})

NextProgram ==
    \/ ProgramAdd \/ ProgramUpdate \/ ProgramDelete \/ MenuExit
    \/ MonitorLoad \/ ProgramCheck \/ MonitorSleep \/ MonitorWake

ProgramSpec == Init /\ [][NextProgram]_vars

(* the monitor thread keeps being scheduled while the process lives, every *)
(* provider call returns or fails and every sleep ends                     *)
FairProgramSpec ==
    /\ ProgramSpec
    /\ WF_vars(MonitorLoad) /\ WF_vars(ProgramCheck)
    /\ WF_vars(MonitorSleep) /\ WF_vars(MonitorWake)

---------------------------------------------------------------------------
(* Properties of the store operations, checked under Spec *)

Ids(list) == {list[i].id : i \in 1..Len(list)}

HasId(list, stock_id) == \E i \in 1..Len(list) : list[i].id = stock_id

SameFieldsButId(a, b) ==
    /\ a.symbol = b.symbol
    /\ a.shares = b.shares
    /\ a.purchase_price = b.purchase_price
    /\ a.threshold = b.threshold

(* the last choice was a delete of an id the stored list held *)
DeletedPresentId ==
    /\ cmd.choice = "d"
    /\ int_ok(cmd.stock_id)
    /\ HasId(portfolio, int_of(cmd.stock_id))

Added == cmd.choice = "a" /\ cmd.valid /\ all_parsed(cmd)

(* C5: in every store state reached from the empty store by add, update    *)
(* and delete, the ids are positive and pairwise distinct; add_stock gives *)
(* the new position the id max(existing ids) + 1 (1 on an empty store),    *)
(* and after a delete the ids are exactly 1..N in list order.              *)
C5_IdsUnique ==
    LET list == load_portfolio(redis)
    IN  /\ \A i \in 1..Len(list) : list[i].id \in Nat \ {0}
        /\ \A i, j \in 1..Len(list) : list[i].id = list[j].id => i = j
        /\ Added =>
              /\ Len(list) = Len(portfolio) + 1
              /\ \A m \in Ids(portfolio) : list[Len(list)].id > m
              /\ list[Len(list)].id - 1 \in Ids(portfolio) \cup {0}
        /\ (cmd.choice = "d" /\ int_ok(cmd.stock_id)) =>
              \A i \in 1..Len(list) : list[i].id = i

(* an add to a store that already holds a position *)
C5_Witness ==
    /\ Added
    /\ Len(portfolio) = 1
    /\ Len(load_portfolio(redis)) = 2

(* an entry of the last add or update that is non-numeric or out of range  *)
InvalidEntry(c) ==
    \/ c.shares # NotAsked /\ (~int_ok(c.shares) \/ int_of(c.shares) <= 0)
    \/ c.purchase_price # NotAsked
          /\ (~float_ok(c.purchase_price) \/ float_of(c.purchase_price) <= 0)
    \/ c.threshold # NotAsked /\ ~float_ok(c.threshold)

(* C8: an interactive add or update whose shares, purchase price or        *)
(* threshold is non-numeric or out of range (shares not a positive         *)
(* integer, purchase price not positive) leaves the stored list unchanged. *)
C8_InvalidInputRejected ==
    (cmd.choice \in {"a", "u"} /\ InvalidEntry(cmd)) =>
        load_portfolio(redis) = portfolio

(* C9: for every reachable store value, the absent key included,           *)
(* save_portfolio(load_portfolio()) leaves a value whose load returns the  *)
(* list loaded before: same length, ids, field values and order.           *)
C9_RoundTrip ==
    load_portfolio(save_portfolio(load_portfolio(redis))) = load_portfolio(redis)

(* a store of two positions that differ *)
C9_Witness ==
    LET list == load_portfolio(redis)
    IN  /\ Len(list) = 2
        /\ list[1].symbol # list[2].symbol
        /\ load_portfolio(save_portfolio(list)) = list

---------------------------------------------------------------------------
(* Properties of the worker pool, checked under PoolSpec and FairPoolSpec *)

(* the last choice was a list or a summary of a non-empty list *)
PoolCall == cmd.choice \in {"l", "s"} /\ portfolio # <<>>

(* the call of list_stocks / portfolio_summary is over *)
PoolCallOver == PoolCall /\ ~InPool

(* the id of a row of the handler's table *)
TableId(r) == IF cmd.choice = "s" THEN r.row.id ELSE r.id

(* C1: for every non-empty stored list of N positions and every            *)
(* combination of provider outcomes, one call yields exactly N snapshots,  *)
(* exactly one per position id; no failure of a fetch task aborts the      *)
(* batch or drops an entry.                                                *)
C1_OneSnapshotPerPosition ==
    PoolCallOver =>
        /\ mainPc = "menu"
        /\ Len(table) = Len(portfolio)
        /\ \A i \in 1..Len(portfolio) :
              Cardinality({j \in 1..Len(table) : TableId(table[j]) = portfolio[i].id}) = 1

(* a finished fetch whose provider call failed and which built a snapshot *)
FallbackSnapshot(i) ==
    /\ futures[i].state = "finished"
    /\ ~futures[i].quote.ok
    /\ futures[i].exc = ""

RECURSIVE SumOver(_, _)
SumOver(f, n) == IF n = 0 THEN 0 ELSE f[n] + SumOver(f, n - 1)

(* the snapshots of the call: the rows of its futures *)
SnapshotValue == [i \in 1..Len(futures) |->
                     futures[i].row.shares * futures[i].row.current_price]
SnapshotPurchaseValue == [i \in 1..Len(futures) |->
                     futures[i].row.shares * futures[i].row.purchase_price]

(* the last choice was a summary, and portfolio_summary has returned *)
SummaryDone == cmd.choice = "s" /\ mainPc = "menu"

TotalsAreSums ==
    /\ shown.kind = "summary"
    /\ shown.summary.total_value = SumOver(SnapshotValue, Len(futures))
    /\ shown.summary.total_purchase_value = SumOver(SnapshotPurchaseValue, Len(futures))
    /\ shown.summary.total_profit_loss =
          shown.summary.total_value - shown.summary.total_purchase_value

(* C6 as stated: for any set of snapshots, the empty set included, the     *)
(* Summarizer produces totals with totalValue = sum of shares*currentPrice,*)
(* totalPurchaseValue = sum of shares*purchasePrice and totalProfitLoss == *)
(* totalValue - totalPurchaseValue; for the empty set totals all zero.     *)
C6_Original ==
    SummaryDone => TotalsAreSums

(* C6, amended: for any non-empty set of snapshots portfolio_summary       *)
(* produces totals with totalValue = sum of shares*currentPrice,           *)
(* totalPurchaseValue = sum of shares*purchasePrice and totalProfitLoss == *)
(* totalValue - totalPurchaseValue; for an empty position list it prints   *)
(* "No stocks in portfolio." and produces no totals.                       *)
C6_Totals ==
    SummaryDone =>
        IF portfolio = <<>>
        THEN shown = Shown("No stocks in portfolio.", <<>>, NoSummary)
        ELSE TotalsAreSums

(* {10 shares, 100 -> 110} and {5 shares, 200 -> 180}: 2000, 2000 and 0 *)
C6_Witness ==
    /\ SummaryDone
    /\ Len(portfolio) = 2
    /\ portfolio[1].shares = 10 /\ portfolio[1].purchase_price = 1000
    /\ portfolio[2].shares = 5 /\ portfolio[2].purchase_price = 2000
    /\ futures[1].row.current_price = 1100
    /\ futures[2].row.current_price = 1800
    /\ shown.summary.total_value = 20000
    /\ shown.summary.total_purchase_value = 20000
    /\ shown.summary.total_profit_loss = 0

(* C7: for every position list that add and update can store, no           *)
(* computation on the summary path raises a division error: whenever the   *)
(* denominator (purchase price, total purchase value, total shares) is 0   *)
(* the result is the defined value 0.                                      *)
C7_NoDivisionError ==
    /\ InPool =>
          \A i \in 1..Len(futures) :
              futures[i].state = "finished" =>
                  /\ futures[i].exc = ""
                  /\ portfolio[i].purchase_price = 0 =>
                        futures[i].row.change = Pct("num", 0)
    /\ mainPc # "crashed"
    /\ shown.kind = "summary" =>
          /\ shown.summary.total_purchase_value = 0 =>
                shown.summary.percentage_profit_loss = 0
          /\ totals.total_shares = 0 =>
                /\ shown.summary.avg_purchase_price = 0
                /\ shown.summary.avg_current_price = 0

(* C10: a call returns to its caller only after every fetch task it        *)
(* submitted has finished (no partial result is returned), and, every      *)
(* provider call returning or failing, the call eventually returns.        *)
C10_ReturnsAfterAllFinish ==
    /\ []((PoolCall /\ mainPc = "menu") =>
             /\ Finished = 1..Len(futures)
             /\ Len(table) = Len(futures))
    /\ ((PoolCall /\ InPool) ~> (PoolCall /\ mainPc = "menu"))

(* the part of C10 that the code keeps: control leaves the call, by a      *)
(* return or by an exception, only when every submitted item has finished  *)
PoolLeftAfterAllFinish ==
    PoolCallOver => Finished = 1..Len(futures)

---------------------------------------------------------------------------
(* Properties of the monitor, checked under MonitorSpec *)

(* the alerts of this cycle for the stock at index i of the loaded list *)
AlertsFor(i) == {k \in 1..Len(alerts) : alerts[k].id = monPortfolio[i].id}

(* the stocks the for loop has dealt with in this cycle *)
Checked == 1..(monIdx - 1)

(* (diff / purchase) * 100 <= threshold, the threshold in tenths of a      *)
(* percent; diff / 0 is +inf for diff > 0 and -inf for diff < 0            *)
AtOrBelow(diff, purchase, threshold) ==
    \/ purchase > 0 /\ diff * 1000 <= threshold * purchase
    \/ purchase < 0 /\ diff * 1000 >= threshold * purchase
    \/ purchase = 0 /\ diff < 0

(* C3 as stated: in every cycle and for every position loaded in it, an    *)
(* alert is raised iff the changePercent of its snapshot for the cycle     *)
(* (the fallback snapshot, of change 0, when the quote failed) is <= the   *)
(* position's thresholdPercent.                                            *)
C3_Original ==
    monPc \in {"check", "sleep"} =>
        \A i \in Checked :
            LET stock == monPortfolio[i]
                price == IF truthy(monQuotes[i]) THEN monQuotes[i].price
                         ELSE stock.purchase_price
            IN  stock.purchase_price > 0 =>
                    ((AlertsFor(i) # {}) <=>
                       (price - stock.purchase_price) * 1000
                           <= stock.threshold * stock.purchase_price)

(* C3, amended: in every cycle and for every position loaded in it, one    *)
(* alert is raised iff the monitor got a price for the position and the    *)
(* change computed from that price is <= the position's thresholdPercent   *)
(* (the boundary alerts); a position whose quote failed raises no alert,   *)
(* and with a purchase price of 0 the change is +inf and raises none.      *)
C3_AlertIffAtOrBelow ==
    monPc \in {"check", "sleep"} =>
        \A i \in 1..Len(monPortfolio) :
            LET stock == monPortfolio[i]
                due   == /\ i \in Checked
                         /\ monQuotes[i].ok /\ monQuotes[i].price # 0
                         /\ AtOrBelow(monQuotes[i].price - stock.purchase_price,
                                      stock.purchase_price, stock.threshold)
            IN  Cardinality(AlertsFor(i)) = IF due THEN 1 ELSE 0

(* purchase price 100, threshold -10: a first position fetched at 85       *)
(* alerted, a second fetched at 90 (the boundary) alerted                  *)
C3_Witness ==
    /\ monPc = "sleep"
    /\ Len(monPortfolio) = 2
    /\ monPortfolio[1].purchase_price = 1000 /\ monPortfolio[1].threshold = -100
    /\ monPortfolio[2].purchase_price = 1000 /\ monPortfolio[2].threshold = -100
    /\ monQuotes[1] = Quote(TRUE, 850) /\ monQuotes[2] = Quote(TRUE, 900)
    /\ Len(alerts) = 2

---------------------------------------------------------------------------
(* More properties of the store operations, checked under Spec *)

(* the last choice was an update that reached update_stock *)
Updated == cmd.choice = "u" /\ cmd.valid /\ all_parsed(cmd)

(* C19: update_stock(id, ...) changes only the symbol, shares, purchase    *)
(* price and threshold of the stored position whose id is the argument;    *)
(* the length, the order, every id and every field of every other position *)
(* are unchanged, and when no stored position has that id the stored list  *)
(* after the call equals the list before it.                               *)
C19_UpdateFrame ==
    Updated =>
        LET old == portfolio
            new == load_portfolio(redis)
            id  == int_of(cmd.stock_id)
        IN  /\ Len(new) = Len(old)
            /\ \A i \in 1..Len(old) :
                  /\ new[i].id = old[i].id
                  /\ old[i].id # id => new[i] = old[i]
                  /\ old[i].id = id =>
                        /\ new[i].symbol = cmd.symbol
                        /\ new[i].shares = int_of(cmd.shares)
                        /\ new[i].purchase_price = float_of(cmd.purchase_price)
                        /\ new[i].threshold = float_of(cmd.threshold)
            /\ ~HasId(old, id) => new = old

(* an update of the second of two positions that changed its symbol and    *)
(* left the first as it was                                                *)
C19_Witness ==
    /\ Updated
    /\ Len(portfolio) = 2
    /\ int_of(cmd.stock_id) = 2
    /\ portfolio[2].symbol # cmd.symbol
    /\ load_portfolio(redis)[2].symbol = cmd.symbol
    /\ load_portfolio(redis)[1] = portfolio[1]

---------------------------------------------------------------------------
(* More properties of the worker pool, checked under PoolSpec *)

(* the profit-loss of a row of the summary's table *)
ProfitLoss(r) == r.row.shares * (r.row.current_price - r.row.purchase_price)

(* the first row of the printed table, in the order the results were       *)
(* consumed, whose profit-loss is pl                                       *)
FirstWith(pl) ==
    shown.table[CHOOSE j \in 1..Len(shown.table) :
                    /\ ProfitLoss(shown.table[j]) = pl
                    /\ \A k \in 1..(j - 1) : ProfitLoss(shown.table[k]) # pl]

(* C18: for any non-empty snapshot set and any completion order,           *)
(* portfolio_summary reports as best performer a position whose            *)
(* profit-loss shares*(currentPrice-purchasePrice) is the maximum and as   *)
(* worst performer one whose profit-loss is the minimum; on a tie the one  *)
(* whose result was consumed first is reported.                            *)
C18_BestWorstPerformer ==
    (SummaryDone /\ shown.kind = "summary") =>
        LET best  == shown.summary.highest_perf_stock
            worst == shown.summary.lowest_perf_stock
            rows  == 1..Len(shown.table)
        IN  /\ best.set /\ worst.set
            /\ \A j \in rows : ProfitLoss(shown.table[j]) <= best.profit_loss
            /\ \A j \in rows : ProfitLoss(shown.table[j]) >= worst.profit_loss
            /\ \E j \in rows : ProfitLoss(shown.table[j]) = best.profit_loss
            /\ \E j \in rows : ProfitLoss(shown.table[j]) = worst.profit_loss
            /\ best.symbol = FirstWith(best.profit_loss).row.symbol
            /\ worst.symbol = FirstWith(worst.profit_loss).row.symbol

(* two positions of different symbols tie (both fell back: profit-loss 0), *)
(* the second was consumed first and is the one reported                   *)
C18_Witness ==
    /\ SummaryDone /\ shown.kind = "summary"
    /\ Len(shown.table) = 2
    /\ shown.table[1].row.id = 2 /\ shown.table[2].row.id = 1
    /\ shown.table[1].row.symbol # shown.table[2].row.symbol
    /\ ProfitLoss(shown.table[1]) = ProfitLoss(shown.table[2])
    /\ shown.summary.highest_perf_stock.symbol = shown.table[1].row.symbol

(* the id of a row of the printed table *)
ShownId(r) == IF shown.kind = "summary" THEN r.row.id ELSE r.id

(* C17: for a fixed list and fixed provider responses, what each caller    *)
(* presents does not depend on the order in which the fetch tasks          *)
(* complete: list_stocks and portfolio_summary both present the rows in    *)
(* ascending id order, and the totals are the same for every order (the    *)
(* sums over the positions in list order).                                 *)
C17_OrderIndependent ==
    (PoolCall /\ mainPc = "menu" /\ shown.kind \in {"table", "summary"}) =>
        /\ \A j \in 1..(Len(shown.table) - 1) :
              ShownId(shown.table[j]) < ShownId(shown.table[j + 1])
        /\ shown.kind = "summary" =>
              /\ shown.summary.total_value = SumOver(SnapshotValue, Len(futures))
              /\ shown.summary.total_purchase_value =
                    SumOver(SnapshotPurchaseValue, Len(futures))

(* the part of C17 that the code keeps for list_stocks: its rows are       *)
(* printed in ascending id order whatever the completion order             *)
ListShownSorted ==
    (cmd.choice = "l" /\ mainPc = "menu" /\ shown.kind = "table") =>
        \A j \in 1..(Len(shown.table) - 1) : shown.table[j].id < shown.table[j + 1].id

---------------------------------------------------------------------------
(* More properties of the monitor, checked under MonitorSpec *)

(* the quote of the i-th stock of this cycle failed *)
QuoteFailedFor(i) == i \in Checked /\ ~monQuotes[i].ok

(* the monitor got a price for the i-th stock of this cycle and the change *)
(* computed from it is at or below the stock's threshold                   *)
Due(i) ==
    /\ i \in Checked
    /\ monQuotes[i].ok /\ monQuotes[i].price # 0
    /\ AtOrBelow(monQuotes[i].price - monPortfolio[i].purchase_price,
                 monPortfolio[i].purchase_price, monPortfolio[i].threshold)

(* C11: in a monitor cycle, when the quote of a position fails, no alert   *)
(* is raised for that position in that cycle, whatever its threshold, and  *)
(* the remaining positions of the cycle are still evaluated: the cycle     *)
(* reaches its sleep only after a quote was asked for every position, and  *)
(* a position after the failed one that is due gets its alert.             *)
C11_FailedQuoteNoAlert ==
    monPc \in {"check", "sleep"} =>
        /\ \A i \in Checked : QuoteFailedFor(i) => AlertsFor(i) = {}
        /\ \A i \in Checked, j \in Checked :
              (i < j /\ QuoteFailedFor(i) /\ Due(j)) => Cardinality(AlertsFor(j)) = 1
        /\ monPc = "sleep" => Len(monQuotes) = Len(monPortfolio)

(* the quote of a first position of threshold 0 failed and raised no       *)
(* alert; the second position was evaluated after it and alerted           *)
C11_Witness ==
    /\ monPc = "sleep"
    /\ Len(monPortfolio) = 2
    /\ monPortfolio[1].threshold = 0 /\ monPortfolio[1].purchase_price > 0
    /\ QuoteFailedFor(1) /\ AlertsFor(1) = {}
    /\ Due(2) /\ Cardinality(AlertsFor(2)) = 1

(* the i-th stock of this cycle was alerted in the cycle before *)
AlertedLastCycle(i) ==
    \E k \in 1..Len(lastAlerts) :
        /\ lastAlerts[k].id = monPortfolio[i].id
        /\ lastAlerts[k].symbol = monPortfolio[i].symbol
        /\ lastAlerts[k].threshold = monPortfolio[i].threshold

(* C15: the monitor keeps no alert-suppression state.  A position that is  *)
(* at or below its threshold in a cycle gets exactly one alert in that     *)
(* cycle whether or not it was alerted in the cycle before, so a position  *)
(* that stays stored and stays at or below its threshold for k cycles in a *)
(* row is alerted once in each of them.                                    *)
C15_NoSuppression ==
    monPc \in {"check", "sleep"} =>
        \A i \in Checked :
            /\ (Due(i) /\ AlertedLastCycle(i)) => Cardinality(AlertsFor(i)) = 1
            /\ (Due(i) /\ ~AlertedLastCycle(i)) => Cardinality(AlertsFor(i)) = 1
            /\ Cardinality(AlertsFor(i)) <= 1

(* a position alerted in the cycle before is alerted again in this one *)
C15_Witness ==
    /\ monPc = "sleep"
    /\ \E i \in Checked :
          /\ AlertedLastCycle(i)
          /\ Due(i)
          /\ Cardinality(AlertsFor(i)) = 1

---------------------------------------------------------------------------
(* The width of the pool, checked under WidePoolSpec *)

(* C16: during one call of list_stocks or portfolio_summary over N         *)
(* positions, for any N, exactly N fetch tasks are submitted, one per      *)
(* position, and at every moment at most 5 of them are running in a worker *)
(* thread, so at most 5 requests of the fetch tasks are in flight.         *)
C16_AtMostFiveInFlight ==
    InPool =>
        /\ Len(futures) = Len(portfolio)
        /\ Len(portfolio) = Len(load_portfolio(redis))
        /\ \A i \in Finished : futures[i].row.id = portfolio[i].id
        /\ Cardinality(Running) <= 5

(* six positions: five fetch tasks are running and the sixth waits for a   *)
(* free worker                                                             *)
C16_Witness ==
    /\ InPool
    /\ Len(futures) = 6
    /\ Cardinality(Running) = 5
    /\ Cardinality(PendingFutures) = 1

---------------------------------------------------------------------------
(* The monitor beside main, checked under ProgramSpec and FairProgramSpec *)

(* C12: once started, the monitor never terminates while the process       *)
(* lives: whatever the stored positions and the quote outcomes, it is      *)
(* loading, checking or sleeping, and unless the process ends every cycle  *)
(* reaches its sleep and is followed by another load, infinitely often.    *)
C12_MonitorNeverEnds ==
    /\ [](ProcessAlive => monPc \in {"load", "check", "sleep"})
    /\ \/ <>(~ProcessAlive)
       \/ ([]<>(monPc = "sleep") /\ []<>(monPc = "load") /\ []<>(monPc = "check"))

(* the loop is back at its top after at least two whole cycles, each of    *)
(* which raised an alert                                                   *)
C12_Witness ==
    /\ ProcessAlive
    /\ monPc = "load"
    /\ alerts # <<>>
    /\ lastAlerts # <<>>

(* C14: every monitor cycle starts by loading the list from the store and  *)
(* evaluates exactly the list stored at that moment: what main saved       *)
(* before the load is in it, the list is kept to the end of the cycle,     *)
(* each alert is for the stock of that list the loop is at, and after the  *)
(* sleep the next cycle loads again.                                       *)
C14_CycleLoadsStoredList ==
    [][/\ (monPc = "load" /\ monPc' # "load") =>
             /\ monPc' = "check"
             /\ monPortfolio' = load_portfolio(redis)
             /\ monIdx' = 1
       /\ monPc \in {"check", "sleep"} => monPortfolio' = monPortfolio
       /\ (monPc = "sleep" /\ monPc' # "sleep") => monPc' = "load"
       /\ (monPc = "check" /\ alerts' # alerts) =>
             /\ monIdx <= Len(monPortfolio)
             /\ Len(alerts') = Len(alerts) + 1
             /\ alerts'[Len(alerts')].id = monPortfolio[monIdx].id
             /\ alerts'[Len(alerts')].symbol = monPortfolio[monIdx].symbol
             /\ alerts'[Len(alerts')].threshold = monPortfolio[monIdx].threshold
      ]_vars

(* the cycle before alerted for RY as position 1; main has since saved an  *)
(* update, and this cycle evaluates the stored list, with TD as position 1 *)
C14_Witness ==
    /\ monPc = "check"
    /\ lastAlerts # <<>>
    /\ lastAlerts[1].id = 1 /\ lastAlerts[1].symbol = "RY"
    /\ monPortfolio # <<>>
    /\ monPortfolio[1].id = 1 /\ monPortfolio[1].symbol = "TD"
    /\ monPortfolio = load_portfolio(redis)
    /\ alerts # <<>>
    /\ alerts[1].symbol = "TD"

(* Of the two threads only main writes the store: no step of the monitor   *)
(* changes it, so no write of one thread can replace a write of the other. *)
MonitorNeverWrites ==
    [][(monPc' # monPc \/ monIdx' # monIdx) => redis' = redis]_vars

(* What the missing lock does allow, a reachable state: main has replaced  *)
(* the list while the monitor is in a cycle, and the cycle goes on with    *)
(* the list it loaded.                                                     *)
StaleCycle ==
    monPc = "check" /\ monPortfolio # load_portfolio(redis)

=============================================================================
